---- MODULE Spec2Model ----
(***************************************************************************)
(* Claude subscription usage tracking: the fetcher and its normalization   *)
(* (packages/shared/src/auth/claude-usage.ts) and the polling hook         *)
(* useClaudeUsage (hooks/useClaudeUsage.ts).                               *)
(*                                                                         *)
(* The hook is the "poller": its effect setup is start(), the effect's     *)
(* cleanup is stop(), the returned refresh callback is refresh(), and the  *)
(* returned {usage, isLoading, isAvailable} is current().                  *)
(***************************************************************************)
EXTENDS Integers, Sequences, FiniteSets, TLC

(***************************************************************************)
(* Bounds of the exploration.                                              *)
(***************************************************************************)
\* fetches issued in one behaviour
MaxFetches == 3
\* runs of the effect setup in one behaviour
MaxStarts == 2
\* sessions in a patterned session collection
MaxSessions == 12
\* sessions in a session collection drawn from every combination of kinds
MaxShort == 3

(***************************************************************************)
(* JavaScript values.  Every value is a record tagged by its type, so that *)
(* null, undefined, numbers, strings and objects are all comparable.       *)
(***************************************************************************)
Null == [k |-> "null"]
Undefined == [k |-> "undefined"]
Num(n) == [k |-> "number", v |-> n]
Str(s) == [k |-> "string", v |-> s]

\* x == null (null or undefined), the test behind ?? and ?.
IsNullish(x) == x.k \in {"null", "undefined"}

\* a ?? b
Coalesce(a, b) == IF IsNullish(a) THEN b ELSE a

\* o.f on a value that is not nullish: a missing property reads undefined
Get(o, f) == IF f \in DOMAIN o THEN o[f] ELSE Undefined

\* o?.f
OptGet(o, f) == IF IsNullish(o) THEN Undefined ELSE Get(o, f)

\* ToBoolean(x), for the values that occur as seven_day_opus
Truthy(x) ==
    CASE x.k \in {"null", "undefined"} -> FALSE
      [] x.k = "number" -> x.v # 0
      [] x.k = "string" -> x.v # ""
      [] OTHER -> TRUE

(***************************************************************************)
(* Raw API payloads (ClaudeUsageApiResponse) of the exploration.           *)
(***************************************************************************)
ApiWindow(u, r) == [k |-> "object", utilization |-> u, resets_at |-> r]

\* {five_hour:{utilization:42,resets_at:"T"}, seven_day:{utilization:0,resets_at:null}}
PayloadNoOpus ==
    [k |-> "object",
     five_hour |-> ApiWindow(Num(42), Str("T")),
     seven_day |-> ApiWindow(Num(0), Null)]
\* as above with a zero Opus window
PayloadOpus ==
    [k |-> "object",
     five_hour |-> ApiWindow(Num(42), Str("T")),
     seven_day |-> ApiWindow(Num(7), Str("T")),
     seven_day_opus |-> ApiWindow(Num(0), Str("T"))]

\* bodies that response.json() parses; the JSON text "null" parses to null
Payloads == {PayloadNoOpus, PayloadOpus, Null}

\* a body that response.json() rejects
Malformed == [k |-> "malformed"]

(***************************************************************************)
(* Usage Normalizer: the object literal fetchClaudeUsage returns.          *)
(***************************************************************************)
UsageWindow(u, r) == [k |-> "object", utilization |-> u, resetsAt |-> r]

\* the normalization with the seven_day lines pasted from five_hour and the
\* window name left unchanged
Normalize_CopyPaste(data) ==
    [k |-> "object",
     fiveHour |->
        UsageWindow(Coalesce(OptGet(Get(data, "five_hour"), "utilization"), Num(0)),
                    Coalesce(OptGet(Get(data, "five_hour"), "resets_at"), Null)),
     sevenDay |->
        UsageWindow(Coalesce(OptGet(Get(data, "five_hour"), "utilization"), Num(0)),
                    Coalesce(OptGet(Get(data, "five_hour"), "resets_at"), Null)),
     sevenDayOpus |->
        IF Truthy(Get(data, "seven_day_opus"))
        THEN UsageWindow(
                 Coalesce(Get(Get(data, "seven_day_opus"), "utilization"), Num(0)),
                 Coalesce(Get(Get(data, "seven_day_opus"), "resets_at"), Null))
        ELSE Undefined]

\* the normalization that tests seven_day_opus?.utilization instead of
\* seven_day_opus
Normalize_OpusIfUsed(data) ==
    [k |-> "object",
     fiveHour |->
        UsageWindow(Coalesce(OptGet(Get(data, "five_hour"), "utilization"), Num(0)),
                    Coalesce(OptGet(Get(data, "five_hour"), "resets_at"), Null)),
     sevenDay |->
        UsageWindow(Coalesce(OptGet(Get(data, "seven_day"), "utilization"), Num(0)),
                    Coalesce(OptGet(Get(data, "seven_day"), "resets_at"), Null)),
     sevenDayOpus |->
        IF Truthy(OptGet(Get(data, "seven_day_opus"), "utilization"))
        THEN UsageWindow(
                 Coalesce(Get(Get(data, "seven_day_opus"), "utilization"), Num(0)),
                 Coalesce(Get(Get(data, "seven_day_opus"), "resets_at"), Null))
        ELSE Undefined]

\* the normalization of a parsed body that is not null or undefined
Normalize(data) ==
    [k |-> "object",
     fiveHour |->
        UsageWindow(Coalesce(OptGet(Get(data, "five_hour"), "utilization"), Num(0)),
                    Coalesce(OptGet(Get(data, "five_hour"), "resets_at"), Null)),
     sevenDay |->
        UsageWindow(Coalesce(OptGet(Get(data, "seven_day"), "utilization"), Num(0)),
                    Coalesce(OptGet(Get(data, "seven_day"), "resets_at"), Null)),
     sevenDayOpus |->
        IF Truthy(Get(data, "seven_day_opus"))
        THEN UsageWindow(
                 Coalesce(Get(Get(data, "seven_day_opus"), "utilization"), Num(0)),
                 Coalesce(Get(Get(data, "seven_day_opus"), "resets_at"), Null))
        ELSE Undefined]

(***************************************************************************)
(* Usage Fetcher: fetchClaudeUsage.                                        *)
(***************************************************************************)
\* what one request to the usage API can come to; the request carries no
\* timeout of its own, so a timeout is the transport's and rejects fetch() as
\* any other network error does
HttpResponse(status, body) == [kind |-> "http", status |-> status, body |-> body]
NetworkError == [kind |-> "network_error", status |-> 0, body |-> Undefined]
Timeout == [kind |-> "timeout", status |-> 0, body |-> Undefined]
NoResponse == [kind |-> "none", status |-> 0, body |-> Undefined]

Responses ==
    {NetworkError, Timeout}
      \cup {HttpResponse(s, Undefined) : s \in {401, 403, 500}}
      \cup {HttpResponse(200, b) : b \in Payloads \cup {Malformed}}

\* response.ok
ResponseOk(resp) == resp.status \in 200..299

Return(v) == [tag |-> "return", value |-> v, logged |-> FALSE]
Throw == [tag |-> "throw", value |-> Undefined, logged |-> FALSE]

\* the try block with the 401 test left out of line 62
fetchClaudeUsageTry_Only403(resp) ==
    IF resp.kind # "http"
    THEN Throw
    ELSE IF ~ResponseOk(resp)
         THEN IF resp.status = 403
              THEN Return(Null)
              ELSE Throw
         ELSE IF resp.body = Malformed
              THEN Throw
              ELSE IF IsNullish(resp.body)
                   THEN Throw
                   ELSE Return(Normalize(resp.body))

\* the try block returning an object that says "not eligible" for 401/403
\* instead of null
fetchClaudeUsageTry_NotEligibleObject(resp) ==
    IF resp.kind # "http"
    THEN Throw
    ELSE IF ~ResponseOk(resp)
         THEN IF resp.status = 403 \/ resp.status = 401
              THEN Return([k |-> "object", notEligible |-> TRUE])
              ELSE Throw
         ELSE IF resp.body = Malformed
              THEN Throw
              ELSE IF IsNullish(resp.body)
                   THEN Throw
                   ELSE Return(Normalize(resp.body))

\* the try block of fetchClaudeUsage: returns a value or throws
fetchClaudeUsageTry(resp) ==
    IF resp.kind # "http"
    THEN Throw                                    \* await fetch(...) rejects
    ELSE IF ~ResponseOk(resp)
         THEN IF resp.status = 403 \/ resp.status = 401
              THEN Return(Null)
              ELSE Throw                          \* throw new Error(`Usage API error`)
         ELSE IF resp.body = Malformed
              THEN Throw                          \* await response.json() rejects
              ELSE IF IsNullish(resp.body)
                   THEN Throw                     \* TypeError: data.five_hour of null
                   ELSE Return(Normalize(resp.body))

\* fetchClaudeUsage without its catch block: what the try block throws is
\* thrown to the caller
fetchClaudeUsage_NoCatch(resp) == fetchClaudeUsageTry(resp)

\* fetchClaudeUsage: the catch block logs and returns null
fetchClaudeUsage(resp) ==
    LET r == fetchClaudeUsageTry(resp)
    IN  IF r.tag = "throw"
        THEN [tag |-> "return", value |-> Null, logged |-> TRUE]
        ELSE r

(***************************************************************************)
(* Host bridge: window.electronAPI.getClaudeUsage().  The renderer sees a  *)
(* promise that resolves to what fetchClaudeUsage returned, or rejects     *)
(* when the call does not reach the handler.                               *)
(***************************************************************************)
Outcomes ==
    {[ipc |-> "ok", resp |-> r] : r \in Responses}
      \cup {[ipc |-> "error", resp |-> NoResponse]}
NoOutcome == [ipc |-> "none", resp |-> NoResponse]

getClaudeUsage(outcome) ==
    IF outcome.ipc = "ok"
    THEN LET r == fetchClaudeUsage(outcome.resp)
         IN  IF r.tag = "return"
             THEN [tag |-> "resolve", value |-> r.value]
             ELSE [tag |-> "reject", value |-> Undefined]
    ELSE [tag |-> "reject", value |-> Undefined]

(***************************************************************************)
(* Usage Poller: useClaudeUsage.                                           *)
(***************************************************************************)
POLL_INTERVAL_MS == 60 * 1000

\* the clock advances by half a poll interval at a time
ClockStep == POLL_INTERVAL_MS \div 2

\* pollIntervalRef.current === null
NoHandle == 0

Min(a, b) == IF a <= b THEN a ELSE b

VARIABLES
    usage,           \* useState: ClaudeUsageData | null
    isLoading,       \* useState: boolean
    isAvailable,     \* useState: boolean
    pollIntervalRef, \* useRef: the handle setInterval returned, or NoHandle
    timers,          \* the armed interval timers: [id, period, remaining, elapsed]
    mounted,         \* the effect's setup has run and its cleanup has not
    issued,          \* every fetchUsage() call so far, in order
    inflight,        \* indices into issued: getClaudeUsage() not yet settled
    lastDone,        \* the fetchUsage() call that settled last
    starts,          \* runs of the effect setup
    repeated,        \* the last cleanup ran with the effect not set up
    stoppedFor       \* time since the effect was cleaned up, up to one interval

\* the inputs and results of the pure functions: the normalizer inside
\* fetchClaudeUsage and the analytics aggregation.  They are not state of the
\* hook, which leaves them alone.
VARIABLES
    rawPayload,      \* the parsed JSON body handed to the normalizer
    normalized,      \* what fetchClaudeUsage's try block made of rawPayload
    sessionMetaMap,  \* the session metadata of the workspace, in map order
    stats,           \* the value of the stats memo of AnalyticsPanel
    resetsAt,        \* the resetsAt a usage bar is rendered with
    now,             \* the clock, in ms, when the bar is rendered
    timeUntilReset   \* what formatTimeUntilReset made of resetsAt

pollerVars ==
    <<usage, isLoading, isAvailable, pollIntervalRef, timers, mounted, issued,
      inflight, lastDone, starts, repeated, stoppedFor>>

fmtVars == <<resetsAt, now, timeUntilReset>>

pureVars == <<rawPayload, normalized, sessionMetaMap, stats, fmtVars>>

vars == <<pollerVars, pureVars>>

\* a pure function that has not been applied yet
NotRun == [tag |-> "pending"]

\* no usage bar is being rendered
FmtIdle ==
    /\ resetsAt = Null
    /\ now = 0
    /\ timeUntilReset = NotRun

PureIdle ==
    /\ rawPayload = Undefined
    /\ normalized = NotRun
    /\ sessionMetaMap = <<>>
    /\ stats = NotRun
    /\ FmtIdle

\* the hook constructed with useState(false) for isLoading
PollerInit_NotLoading ==
    /\ usage = Null
    /\ isLoading = FALSE
    /\ isAvailable = FALSE
    /\ pollIntervalRef = NoHandle
    /\ timers = {}
    /\ mounted = FALSE
    /\ issued = <<>>
    /\ inflight = {}
    /\ lastDone = [id |-> 0, outcome |-> NoOutcome, branch |-> "none",
                    rejected |-> FALSE]
    /\ starts = 0
    /\ repeated = FALSE
    /\ stoppedFor = 0

\* the hook as useState and useRef construct it
PollerInit ==
    /\ usage = Null
    /\ isLoading = TRUE
    /\ isAvailable = FALSE
    /\ pollIntervalRef = NoHandle
    /\ timers = {}
    /\ mounted = FALSE
    /\ issued = <<>>
    /\ inflight = {}
    /\ lastDone = [id |-> 0, outcome |-> NoOutcome, branch |-> "none",
                    rejected |-> FALSE]
    /\ starts = 0
    /\ repeated = FALSE
    /\ stoppedFor = 0

Init == PollerInit /\ PureIdle

\* the record of one fetchUsage() call
FetchCall(trigger, timer) ==
    [trigger |-> trigger,   \* "initial", "interval" or "refresh"
     timer |-> timer]       \* the timer armed with it or that fired it, or NoHandle

\* fetchUsage(), up to its await: the request leaves
IssueFetch(trigger, timer) ==
    /\ Len(issued) < MaxFetches
    /\ issued' = Append(issued, FetchCall(trigger, timer))
    /\ inflight' = inflight \cup {Len(issued) + 1}

\* fetchUsage with setIsAvailable(true) in its try block
fetchUsageSettled_AvailableOnResolve(settled) ==
    IF settled.tag = "resolve"
    THEN [usage |-> settled.value,
          isAvailable |-> TRUE,
          isLoading |-> FALSE,
          branch |-> "try",
          rejected |-> FALSE]
    ELSE [usage |-> Null,
          isAvailable |-> FALSE,
          isLoading |-> FALSE,
          branch |-> "catch",
          rejected |-> FALSE]

\* fetchUsage with setIsLoading(false) at the end of its try block and no
\* finally block
fetchUsageSettled_LoadingInTry(settled) ==
    IF settled.tag = "resolve"
    THEN [usage |-> settled.value,
          isAvailable |-> settled.value # Null,
          isLoading |-> FALSE,
          branch |-> "try",
          rejected |-> FALSE]
    ELSE [usage |-> Null,
          isAvailable |-> FALSE,
          isLoading |-> isLoading,
          branch |-> "catch",
          rejected |-> FALSE]

\* fetchUsage(), after its await: what the try, catch and finally blocks set
fetchUsageSettled(settled) ==
    IF settled.tag = "resolve"
    THEN [usage |-> settled.value,
          isAvailable |-> settled.value # Null,
          isLoading |-> FALSE,
          branch |-> "try",
          rejected |-> FALSE]
    ELSE [usage |-> Null,
          isAvailable |-> FALSE,
          isLoading |-> FALSE,
          branch |-> "catch",
          rejected |-> FALSE]

\* setInterval(fetchUsage, period): a fresh handle, first due one period on;
\* elapsed is the time since the call
SetInterval(handle, period) ==
    [id |-> handle, period |-> period, remaining |-> period, elapsed |-> 0]

\* clearInterval(handle)
ClearInterval(handle) == {t \in timers : t.id # handle}

\* start(): the setup of the polling effect.  React runs the setup of an
\* effect at mount and after that effect's cleanup, never twice in a row.
Start ==
    /\ ~mounted
    /\ starts < MaxStarts
    /\ IssueFetch("initial", starts + 1)
    /\ pollIntervalRef' = starts + 1
    /\ timers' = timers \cup {SetInterval(starts + 1, POLL_INTERVAL_MS)}
    /\ mounted' = TRUE
    /\ starts' = starts + 1
    /\ repeated' = FALSE
    /\ stoppedFor' = 0
    /\ UNCHANGED <<usage, isLoading, isAvailable, lastDone>>
    /\ UNCHANGED pureVars

\* the cleanup with clearInterval left out: the handle is only forgotten
Stop_NoClear ==
    /\ pollIntervalRef' = NoHandle
    /\ mounted' = FALSE
    /\ repeated' = ~mounted
    /\ stoppedFor' = IF mounted THEN 0 ELSE stoppedFor
    /\ UNCHANGED <<usage, isLoading, isAvailable, timers, issued, inflight,
                   lastDone, starts>>
    /\ UNCHANGED pureVars

\* stop(): the cleanup of the polling effect.  It tests the handle itself,
\* so it is taken in every state, also before any setup and repeatedly.
Stop ==
    /\ IF pollIntervalRef # NoHandle
       THEN /\ timers' = ClearInterval(pollIntervalRef)
            /\ pollIntervalRef' = NoHandle
       ELSE UNCHANGED <<timers, pollIntervalRef>>
    /\ mounted' = FALSE
    /\ repeated' = ~mounted
    /\ stoppedFor' = IF mounted THEN 0 ELSE stoppedFor
    /\ UNCHANGED <<usage, isLoading, isAvailable, issued, inflight, lastDone,
                   starts>>
    /\ UNCHANGED pureVars

\* a tick that skips its fetch while an earlier one is still in flight
Tick_SkipIfBusy(t) ==
    /\ t \in timers
    /\ t.remaining = 0
    /\ IF inflight = {}
       THEN IssueFetch("interval", t.id)
       ELSE UNCHANGED <<issued, inflight>>
    /\ timers' = (timers \ {t}) \cup {[t EXCEPT !.remaining = t.period]}
    /\ UNCHANGED <<usage, isLoading, isAvailable, pollIntervalRef, mounted,
                   lastDone, starts, repeated, stoppedFor>>
    /\ UNCHANGED pureVars

\* a timer armed with setTimeout: it fires once and is gone
Tick_Once(t) ==
    /\ t \in timers
    /\ t.remaining = 0
    /\ IssueFetch("interval", t.id)
    /\ timers' = timers \ {t}
    /\ UNCHANGED <<usage, isLoading, isAvailable, pollIntervalRef, mounted,
                   lastDone, starts, repeated, stoppedFor>>
    /\ UNCHANGED pureVars

\* an armed interval timer comes due, calls fetchUsage and is due again one
\* period on
Tick(t) ==
    /\ t \in timers
    /\ t.remaining = 0
    /\ IssueFetch("interval", t.id)
    /\ timers' = (timers \ {t}) \cup {[t EXCEPT !.remaining = t.period]}
    /\ UNCHANGED <<usage, isLoading, isAvailable, pollIntervalRef, mounted,
                   lastDone, starts, repeated, stoppedFor>>
    /\ UNCHANGED pureVars

\* a refresh that also restarts the polling countdown
Refresh_Rearm ==
    /\ IssueFetch("refresh", NoHandle)
    /\ timers' = {[t EXCEPT !.remaining = t.period] : t \in timers}
    /\ UNCHANGED <<usage, isLoading, isAvailable, pollIntervalRef, mounted,
                   lastDone, starts, repeated, stoppedFor>>
    /\ UNCHANGED pureVars

\* refresh()
Refresh ==
    /\ IssueFetch("refresh", NoHandle)
    /\ UNCHANGED <<usage, isLoading, isAvailable, pollIntervalRef, timers, mounted,
                   lastDone, starts, repeated, stoppedFor>>
    /\ UNCHANGED pureVars

\* a completion fenced by request id: only the latest call's result is applied
Complete_Fenced(f, o) ==
    /\ f \in inflight
    /\ LET r == fetchUsageSettled(getClaudeUsage(o))
       IN  /\ IF f = Len(issued)
              THEN /\ usage' = r.usage
                   /\ isAvailable' = r.isAvailable
                   /\ isLoading' = r.isLoading
              ELSE UNCHANGED <<usage, isAvailable, isLoading>>
           /\ lastDone' = [id |-> f, outcome |-> o, branch |-> r.branch,
                            rejected |-> r.rejected]
    /\ inflight' = inflight \ {f}
    /\ UNCHANGED <<pollIntervalRef, timers, mounted, issued, starts, repeated,
                   stoppedFor>>
    /\ UNCHANGED pureVars

\* getClaudeUsage() of call f settles with outcome o and fetchUsage resumes
Complete(f, o) ==
    /\ f \in inflight
    /\ LET r == fetchUsageSettled(getClaudeUsage(o))
       IN  /\ usage' = r.usage
           /\ isAvailable' = r.isAvailable
           /\ isLoading' = r.isLoading
           /\ lastDone' = [id |-> f, outcome |-> o, branch |-> r.branch,
                            rejected |-> r.rejected]
    /\ inflight' = inflight \ {f}
    /\ UNCHANGED <<pollIntervalRef, timers, mounted, issued, starts, repeated,
                   stoppedFor>>
    /\ UNCHANGED pureVars

\* time passes by one clock step; a timer that is due fires before the clock
\* moves on
Advance ==
    /\ \A t \in timers : t.remaining > 0
    /\ timers' = {[t EXCEPT !.remaining = t.remaining - ClockStep,
                            !.elapsed = t.elapsed + ClockStep] : t \in timers}
    /\ stoppedFor' = IF mounted THEN 0
                     ELSE Min(stoppedFor + ClockStep, POLL_INTERVAL_MS)
    /\ UNCHANGED <<usage, isLoading, isAvailable, pollIntervalRef, mounted, issued,
                   inflight, lastDone, starts, repeated>>
    /\ UNCHANGED pureVars

Next ==
    \/ Start
    \/ Stop
    \/ \E t \in timers : Tick(t)
    \/ Refresh
    \/ \E f \in inflight, o \in Outcomes : Complete(f, o)
    \/ Advance

Spec == Init /\ [][Next]_vars

\* one outcome of each kind the hook can tell apart or the fetcher logs
\* differently: two snapshots, "not eligible", a network error, a bridge call
\* that rejects
FairOutcomes ==
    {[ipc |-> "ok", resp |-> r] :
        r \in {HttpResponse(200, PayloadNoOpus), HttpResponse(200, PayloadOpus),
                HttpResponse(401, Undefined), NetworkError}}
      \cup {[ipc |-> "error", resp |-> NoResponse]}

\* the steps of the poller, with the outcomes of a settling call drawn from
\* FairOutcomes
FairNext ==
    \/ Start
    \/ Stop
    \/ \E t \in timers : Tick(t)
    \/ Refresh
    \/ \E f \in inflight, o \in FairOutcomes : Complete(f, o)
    \/ Advance

\* The poller under the scheduling the runtime gives it: time passes, the
\* event loop runs a timer callback that is due, and a request that was sent
\* settles (with any outcome), after which fetchUsage resumes.
FairSpec ==
    /\ Init
    /\ [][FairNext]_vars
    /\ WF_vars(Advance)
    /\ WF_vars(\E t \in timers : Tick(t))
    /\ WF_vars(\E f \in inflight, o \in FairOutcomes : Complete(f, o))

(***************************************************************************)
(* What the panels make of current(): "Subscription Required" is shown     *)
(* when !isAvailable && !isLoading; before the first fetch settles the     *)
(* hook is loading and nothing is known.                                   *)
(***************************************************************************)
Availability ==
    IF isAvailable THEN "available"
    ELSE IF isLoading THEN "unknown"
    ELSE "unavailable"

AvailabilityNext ==
    IF isAvailable' THEN "available"
    ELSE IF isLoading' THEN "unknown"
    ELSE "unavailable"

(***************************************************************************)
(* Vocabulary of the properties.                                           *)
(***************************************************************************)
\* this step is the settling of a fetch cycle; lastDone' describes it
Settles == lastDone'.id \in inflight /\ lastDone'.id \notin inflight'

\* some fetch cycle has settled; lastDone describes the latest one
HasSettled == lastDone.id # 0

\* the request reached the API and was answered with this status
HttpStatus(o, statuses) ==
    o.ipc = "ok" /\ o.resp.kind = "http" /\ o.resp.status \in statuses

\* network error, timeout or malformed JSON
TransportFailure(o) ==
    /\ o.ipc = "ok"
    /\ \/ o.resp.kind \in {"network_error", "timeout"}
       \/ o.resp.kind = "http" /\ ResponseOk(o.resp) /\ o.resp.body = Malformed

\* a success status with a body that parsed
HttpSuccess(o) ==
    o.ipc = "ok" /\ o.resp.kind = "http" /\ ResponseOk(o.resp)
      /\ o.resp.body # Malformed

\* call f was issued by a setup whose timer has since been cleared: a stop()
\* came after it
IssuedBeforeStop(f) ==
    issued[f].timer # NoHandle /\ issued[f].timer # pollIntervalRef

Done(f) == f \in 1..Len(issued) /\ f \notin inflight

(***************************************************************************)
(* C1.  A fetch cycle that ends in a transport failure (network error,     *)
(* timeout, malformed JSON) while a snapshot is stored and availability is *)
(* "available" leaves the snapshot and the availability unchanged.         *)
(* The code does not: fetchClaudeUsage turns the failure into null and     *)
(* fetchUsage stores null and clears isAvailable.                          *)
(***************************************************************************)
C1_TransportFailureKeepsSnapshot ==
    [][(/\ Settles
        /\ TransportFailure(lastDone'.outcome)
        /\ usage # Null
        /\ Availability = "available")
       => (usage' = usage /\ AvailabilityNext = Availability)]_vars

(***************************************************************************)
(* C2.  A fetch cycle answered with a non-success status other than 401    *)
(* and 403 leaves availability unchanged and keeps the stored snapshot, if *)
(* any.  The code does not: the thrown "Usage API error" is caught in      *)
(* fetchClaudeUsage, null is returned and stored.                          *)
(***************************************************************************)
C2_FetchErrorKeepsState ==
    [][(/\ Settles
        /\ HttpStatus(lastDone'.outcome, {500}))
       => (/\ AvailabilityNext = Availability
           /\ usage # Null => usage' = usage)]_vars

(***************************************************************************)
(* C3.  A fetch cycle answered with 401 or 403 is not an error: the        *)
(* fetcher returns the "unavailable" value (null) from its try block, the  *)
(* bridge promise resolves, fetchUsage finishes through its try branch,    *)
(* and the poller is unavailable afterwards.                               *)
(***************************************************************************)
C3_NotEligibleIsAValue ==
    (HasSettled /\ HttpStatus(lastDone.outcome, {401, 403}))
      => /\ fetchClaudeUsageTry(lastDone.outcome.resp) = Return(Null)
         /\ getClaudeUsage(lastDone.outcome).tag = "resolve"
         /\ lastDone.branch = "try"
         /\ Availability = "unavailable"
         /\ usage = Null

\* both statuses have been answered, one of them over a stored snapshot
C3_Witness ==
    /\ HasSettled
    /\ HttpStatus(lastDone.outcome, {401})
    /\ Availability = "unavailable"
    /\ \E f \in 1..Len(issued) : Done(f) /\ f # lastDone.id

(***************************************************************************)
(* C4.  After a fetch cycle that ends in HTTP success, availability is     *)
(* "available" and the stored snapshot is exactly the normalization of the *)
(* response.  The code does not for the body null: reading data.five_hour  *)
(* throws, the catch returns null (see C18).                               *)
(***************************************************************************)
C4_SuccessReplacesSnapshot ==
    (HasSettled /\ HttpSuccess(lastDone.outcome))
      => /\ Availability = "available"
         /\ usage # Null
         /\ ~IsNullish(lastDone.outcome.resp.body)
              => usage = Normalize(lastDone.outcome.resp.body)

(***************************************************************************)
(* C5.  The result of a fetch that was in flight when stop() was called is *)
(* dropped: its completion changes neither the snapshot nor availability   *)
(* nor the loading flag.  The code does not check that the effect is still *)
(* set up: fetchUsage applies every result.                                *)
(***************************************************************************)
C5_ResultDroppedAfterStop ==
    [][(Settles /\ IssuedBeforeStop(lastDone'.id))
       => UNCHANGED <<usage, isAvailable, isLoading>>]_vars

(***************************************************************************)
(* Vocabulary of the timer properties.                                     *)
(***************************************************************************)
Calls == 1..Len(issued)

Triggered(f, trigger) == f \in Calls /\ issued[f].trigger = trigger

\* the interval-triggered calls that timer h has made
FiredBy(h) == {f \in Calls : issued[f].trigger = "interval" /\ issued[f].timer = h}

\* this step issues a call with this trigger
Issues(trigger) ==
    /\ Len(issued') = Len(issued) + 1
    /\ issued'[Len(issued')].trigger = trigger

C7_StopCancelsTimer ==
    [][/\ ~mounted' => (timers' = {} /\ pollIntervalRef' = NoHandle)
       /\ ~mounted => ~Issues("interval")]_vars

\* started, then stopped twice in a row before the first tick, and the clock
\* has since advanced by a whole interval
C7_Witness ==
    /\ ~mounted
    /\ starts >= 1
    /\ repeated
    /\ stoppedFor = POLL_INTERVAL_MS
    /\ \A f \in Calls : ~Triggered(f, "interval")

(***************************************************************************)
(* C8.  start() issues one fetch at once and arms a timer of period 60     *)
(* seconds; while the timer is armed, every elapsed period has brought     *)
(* exactly one interval-triggered fetch, whether or not an earlier fetch   *)
(* was still in flight.                                                    *)
(***************************************************************************)
C8_ImmediateFetchThenEvery60s ==
    /\ Cardinality({f \in Calls : Triggered(f, "initial")}) = starts
    /\ \A t \in timers :
          /\ t.period = 60000
          /\ \E f \in Calls : Triggered(f, "initial") /\ issued[f].timer = t.id
          /\ LET n == Cardinality(FiredBy(t.id))
             IN  /\ n * 60000 <= t.elapsed
                 /\ t.elapsed <= (n + 1) * 60000

\* two periods have elapsed and brought two interval-triggered fetches, both
\* while the initial fetch was still in flight
C8_Witness ==
    /\ mounted
    /\ Cardinality(FiredBy(pollIntervalRef)) = 2
    /\ \E f \in inflight : Triggered(f, "initial")
    /\ \E t \in timers : t.elapsed = 2 * POLL_INTERVAL_MS

(***************************************************************************)
(* C9.  refresh() issues one fetch at once and neither arms nor cancels    *)
(* nor reschedules a timer; the next interval-triggered fetch of the armed *)
(* timer is due a whole number of periods after the start() that armed it, *)
(* one period after its last one, whether or not refresh() was called in   *)
(* between.                                                                *)
(***************************************************************************)
C9_RefreshLeavesTimerAlone ==
    /\ [](\A t \in timers :
             t.elapsed + t.remaining = (Cardinality(FiredBy(t.id)) + 1) * t.period)
    /\ [][Issues("refresh") =>
             /\ timers' = timers
             /\ pollIntervalRef' = pollIntervalRef
             /\ inflight' = inflight \cup {Len(issued')}]_vars

\* a refresh half a period after start(), still in flight when the first tick
\* of the timer comes at the full period
C9_Witness ==
    \E f, r, g \in Calls :
      /\ f < r /\ r < g
      /\ Triggered(f, "initial")
      /\ Triggered(r, "refresh")
      /\ Triggered(g, "interval")
      /\ issued[g].timer = issued[f].timer
      /\ r \in inflight
      /\ \E t \in timers : t.id = issued[g].timer /\ t.elapsed = t.period

\* what a fetch cycle that settled with outcome o hands to the poller
ResultOf(o) ==
    IF HttpSuccess(o) /\ ~IsNullish(o.resp.body)
    THEN Normalize(o.resp.body)
    ELSE Null

(***************************************************************************)
(* C10.  When an interval-triggered fetch and a refresh()-triggered fetch  *)
(* have both completed, the stored snapshot is the result of the one that  *)
(* completed last, whichever was issued first: the normalized snapshot if  *)
(* it succeeded, null if it did not.                                       *)
(***************************************************************************)
C10_LastCompletionWins ==
    \A f, g \in Calls :
      (/\ Triggered(f, "interval") /\ Triggered(g, "refresh")
       /\ Done(f) /\ Done(g)
       /\ lastDone.id \in {f, g})
        => usage = ResultOf(lastDone.outcome)

\* the refresh was issued after the tick and completed before it: both were
\* in flight together, and the tick's snapshot, the older request's, is stored
C10_Witness ==
    \E f, g \in Calls :
      /\ Triggered(f, "interval") /\ Triggered(g, "refresh")
      /\ f < g
      /\ Done(f) /\ Done(g)
      /\ lastDone.id = f
      /\ lastDone.outcome.resp.body = PayloadOpus
      /\ usage = Normalize(PayloadOpus)

(***************************************************************************)
(* Stale overwrites.  The call that settled last is older than a call that *)
(* had settled before it: its response replaced the newer one's result.    *)
(***************************************************************************)
StaleOverwrite == \E g \in Calls : g > lastDone.id /\ Done(g)

\* the stored snapshot is the result of a call issued after the first n
CorrectedAfter(n) == lastDone.id > n /\ usage = ResultOf(lastDone.outcome)

(***************************************************************************)
(* C11.  A stale overwrite self-corrects.  Whenever an older call's        *)
(* response has overwritten a newer call's result while the poller is      *)
(* active (and the log of calls has room for one more), then, unless the   *)
(* poller is stopped, the stored snapshot eventually is the result of a    *)
(* call issued after that moment: the interval timer keeps firing, each    *)
(* tick issues a call, and a call that settles replaces the snapshot       *)
(* wholesale.  Checked under FairSpec.                                     *)
(***************************************************************************)
C11_StaleOverwriteSelfCorrects ==
    \A n \in 2..(MaxFetches - 1) :
        (StaleOverwrite /\ mounted /\ Len(issued) = n)
            ~> (~mounted \/ CorrectedAfter(n))

\* an initial call and a later call have both succeeded, the older one last,
\* so the stored snapshot is the older one's; the poller is still active
C11_Witness ==
    /\ StaleOverwrite
    /\ mounted
    /\ Len(issued) < MaxFetches
    /\ HttpSuccess(lastDone.outcome)
    /\ lastDone.outcome.resp.body = PayloadNoOpus
    /\ usage = Normalize(PayloadNoOpus)

(***************************************************************************)
(* C12.  The loading flag is true whenever a fetch cycle is in flight, not *)
(* only during the first one.  The code does not do this: isLoading starts *)
(* true, the finally block of fetchUsage sets it false, and nothing sets   *)
(* it true again, so a later cycle is in flight with the flag false.       *)
(***************************************************************************)
C12_LoadingWhileInFlight == inflight # {} => isLoading

(***************************************************************************)
(* C13.  After a fetch cycle was classified "not eligible" (401/403) and   *)
(* while the poller stays active, an interval tick issues no fetch.  The   *)
(* code does not do this: the interval calls fetchUsage every 60 s         *)
(* whatever the last outcome was.                                          *)
(***************************************************************************)
C13_NoRetryAfterNotEligible ==
    [][(HasSettled /\ HttpStatus(lastDone.outcome, {401, 403}) /\ mounted)
          => ~Issues("interval")]_vars

(***************************************************************************)
(* C14.  Until the first fetch cycle has settled the availability is       *)
(* "unknown": the panels show "Subscription Required" (not eligible) only  *)
(* in states where a fetch cycle has settled and left no snapshot.         *)
(***************************************************************************)
C14_UnknownBeforeFirstCompletion ==
    /\ ~HasSettled => Availability = "unknown"
    /\ Availability = "unavailable" => HasSettled /\ usage = Null

\* the first call has been in flight for a whole interval and more
C14_Witness ==
    /\ ~HasSettled
    /\ mounted
    /\ 1 \in inflight
    /\ \E t \in timers : t.elapsed >= POLL_INTERVAL_MS
    /\ Availability = "unknown"

(***************************************************************************)
(* C15.  No outcome throws past the Fetcher/Poller boundary: whatever the  *)
(* request met (success, 401/403, another status, a transport failure,     *)
(* malformed JSON), fetchClaudeUsage returns a value, so the awaited call  *)
(* resolves and fetchUsage goes through its try block; and every fetch     *)
(* cycle, a rejected bridge call included, ends without rejecting.         *)
(***************************************************************************)
C15_NothingThrowsPastBoundary ==
    HasSettled =>
        /\ ~lastDone.rejected
        /\ lastDone.outcome.ipc = "ok" =>
              /\ fetchClaudeUsage(lastDone.outcome.resp).tag = "return"
              /\ lastDone.branch = "try"

\* a refresh() whose request met malformed JSON has settled through the try
\* block, with null
C15_Witness ==
    /\ HasSettled
    /\ Triggered(lastDone.id, "refresh")
    /\ TransportFailure(lastDone.outcome)
    /\ lastDone.outcome.resp.kind = "http"
    /\ lastDone.branch = "try"
    /\ ~lastDone.rejected
    /\ usage = Null

(***************************************************************************)
(* The normalization on its own: fetchClaudeUsage's try block applied to a *)
(* response with a success status whose body parsed to rawPayload.         *)
(***************************************************************************)
\* a property left out of an object literal
Absent == [k |-> "absent"]

\* the object with the properties of props that are not Absent
Object(props) ==
    [f \in {"k"} \cup {g \in DOMAIN props : props[g] # Absent} |->
        IF f = "k" THEN "object" ELSE props[f]]

\* ApiUsageWindow: utilization is a number, resets_at a string or null, and
\* either may be missing
RawWindows ==
    {Object([utilization |-> u, resets_at |-> r]) :
        u \in {Absent, Num(0), Num(42)}, r \in {Absent, Null, Str("T")}}

\* what a window property of the body holds: a window, null, or nothing
RawFields == RawWindows \cup {Absent, Null}

\* ClaudeUsageApiResponse bodies
RawObjects ==
    {Object([five_hour |-> a, seven_day |-> b, seven_day_opus |-> c]) :
        a \in RawFields, b \in RawFields, c \in RawFields}

\* what response.json() can resolve to: an object, null, or a JSON number
\* or string
RawPayloads == RawObjects \cup {Null, Num(5), Str("ok")}

NormInit ==
    /\ PollerInit
    /\ rawPayload \in RawPayloads
    /\ normalized = NotRun
    /\ sessionMetaMap = <<>>
    /\ stats = NotRun
    /\ FmtIdle

\* lines 68-84 run on the parsed body
NormalizePayload ==
    /\ normalized = NotRun
    /\ normalized' = fetchClaudeUsageTry(HttpResponse(200, rawPayload))
    /\ UNCHANGED <<pollerVars, rawPayload, sessionMetaMap, stats, fmtVars>>

NormNext == NormalizePayload

NormSpec == NormInit /\ [][NormNext]_vars

\* the body is an object and the normalization has been applied to it
NormalizedObject == normalized # NotRun /\ rawPayload.k = "object"

\* window name of the body has no value: it is missing or null
WindowMissing(name) ==
    name \notin DOMAIN rawPayload \/ rawPayload[name] = Null

\* the utilization the contract gives window name of the body
ContractUtilization(name) ==
    IF WindowMissing(name) \/ "utilization" \notin DOMAIN rawPayload[name]
    THEN Num(0)
    ELSE rawPayload[name].utilization

\* the reset the contract gives window name of the body; null stands for absent
ContractReset(name) ==
    IF WindowMissing(name) \/ "resets_at" \notin DOMAIN rawPayload[name]
    THEN Null
    ELSE rawPayload[name].resets_at

\* usage.sevenDayOpus && ..., the test the panels show the Opus bar on
HasOpusWindow(snapshot) == Truthy(snapshot.sevenDayOpus)

(***************************************************************************)
(* C16.  Normalization defaults.  For five_hour and seven_day alike: the   *)
(* utilization of the snapshot is 0 when the window or its utilization is  *)
(* missing and the payload's utilization otherwise; the reset is absent    *)
(* (null) when the window or its resets_at is missing or resets_at is      *)
(* null, and the payload's resets_at otherwise.                            *)
(***************************************************************************)
C16_NormalizationDefaults ==
    NormalizedObject =>
        /\ normalized.tag = "return"
        /\ normalized.value.fiveHour =
              UsageWindow(ContractUtilization("five_hour"), ContractReset("five_hour"))
        /\ normalized.value.sevenDay =
              UsageWindow(ContractUtilization("seven_day"), ContractReset("seven_day"))

\* the body {five_hour: {resets_at: null}, seven_day: {utilization: 42,
\* resets_at: "T"}}: one window defaulted, the other copied
C16_Witness ==
    /\ NormalizedObject
    /\ Get(rawPayload, "five_hour") = [k |-> "object", resets_at |-> Null]
    /\ Get(rawPayload, "seven_day") = ApiWindow(Num(42), Str("T"))
    /\ normalized.value.fiveHour = UsageWindow(Num(0), Null)
    /\ normalized.value.sevenDay = UsageWindow(Num(42), Str("T"))

(***************************************************************************)
(* C17.  The snapshot has an Opus window exactly when seven_day_opus is    *)
(* present and not null in the payload.  Without it the snapshot carries   *)
(* no Opus window at all (undefined, not a zeroed window); with it the     *)
(* window is kept whatever its utilization, 0 included.                    *)
(***************************************************************************)
C17_OpusWindowIffPresent ==
    NormalizedObject =>
        /\ normalized.tag = "return"
        /\ HasOpusWindow(normalized.value) <=> ~WindowMissing("seven_day_opus")
        /\ WindowMissing("seven_day_opus") =>
              normalized.value.sevenDayOpus = Undefined
        /\ ~WindowMissing("seven_day_opus") =>
              normalized.value.sevenDayOpus =
                  UsageWindow(ContractUtilization("seven_day_opus"),
                              ContractReset("seven_day_opus"))

\* a body whose Opus window has utilization 0: the window is kept
C17_Witness ==
    /\ NormalizedObject
    /\ Get(rawPayload, "seven_day_opus") = ApiWindow(Num(0), Str("T"))
    /\ HasOpusWindow(normalized.value)
    /\ normalized.value.sevenDayOpus = UsageWindow(Num(0), Str("T"))

(***************************************************************************)
(* C18.  Normalization is total: for every body that parsed, null and      *)
(* values that are not objects included, it yields a snapshot and does not *)
(* raise.  The code is not total: on the body null, data.five_hour raises  *)
(* a TypeError.                                                            *)
(***************************************************************************)
C18_NormalizationTotal ==
    normalized # NotRun =>
        /\ normalized.tag = "return"
        /\ normalized.value.k = "object"

(***************************************************************************)
(* Analytics Aggregator: the stats memo of AnalyticsPanel, applied to the  *)
(* session metadata in map order.                                          *)
(***************************************************************************)
UsageDelta(five, seven) ==
    [k |-> "object", fiveHourDelta |-> Num(five), sevenDayDelta |-> Num(seven)]

TokenUsage(total, delta) ==
    [k |-> "object", totalTokens |-> Num(total), usageDelta |-> delta]

Session(id, hidden, tokenUsage) ==
    [id |-> id, hidden |-> hidden, tokenUsage |-> tokenUsage]

\* x || 0 on a number or a missing value
OrZero(x) == IF Truthy(x) THEN x.v ELSE 0

\* x ?? 0 on a number or a missing value
NullishZero(x) == IF IsNullish(x) THEN 0 ELSE x.v

\* seq.slice(0, n)
Slice(seq, n) == SubSeq(seq, 1, Min(n, Len(seq)))

\* the cap of .slice(0, 10)
TopSessionsCap == 10

\* s.tokenUsage?.usageDelta
UsageDeltaOf(s) == OptGet(s.tokenUsage, "usageDelta")

\* s.tokenUsage?.usageDelta?.fiveHourDelta ?? 0
FiveHourDeltaOf(s) == NullishZero(OptGet(UsageDeltaOf(s), "fiveHourDelta"))

\* a comparator that ranks the smallest delta first
Compare_Ascending(a, b) == FiveHourDeltaOf(a) - FiveHourDeltaOf(b)

\* the comparator of the sort: bDelta - aDelta
Compare(a, b) == FiveHourDeltaOf(b) - FiveHourDeltaOf(a)

\* the insertion of a sort that is not stable: s goes before the elements it
\* ties with
RECURSIVE Insert_BeforeEqual(_, _)
Insert_BeforeEqual(sorted, s) ==
    IF sorted = <<>>
    THEN <<s>>
    ELSE IF Compare(Head(sorted), s) < 0
         THEN <<Head(sorted)>> \o Insert_BeforeEqual(Tail(sorted), s)
         ELSE <<s>> \o sorted

\* Array.prototype.sort is stable: s goes behind every element that does not
\* compare after it
RECURSIVE Insert(_, _)
Insert(sorted, s) ==
    IF sorted = <<>>
    THEN <<s>>
    ELSE IF Compare(Head(sorted), s) <= 0
         THEN <<Head(sorted)>> \o Insert(Tail(sorted), s)
         ELSE <<s>> \o sorted

RECURSIVE Sort(_)
Sort(seq) ==
    IF seq = <<>>
    THEN <<>>
    ELSE Insert(Sort(SubSeq(seq, 1, Len(seq) - 1)), seq[Len(seq)])

\* the for loop with the token total moved inside the usageDelta test
RECURSIVE Totals_TokensWithDeltaOnly(_)
Totals_TokensWithDeltaOnly(seq) ==
    IF seq = <<>>
    THEN [totalFiveHourDelta |-> 0, totalSevenDayDelta |-> 0, totalTokens |-> 0,
          sessionsWithUsage |-> 0]
    ELSE LET acc == Totals_TokensWithDeltaOnly(SubSeq(seq, 1, Len(seq) - 1))
             session == seq[Len(seq)]
         IN  IF Truthy(session.tokenUsage) /\ Truthy(session.tokenUsage.usageDelta)
             THEN [totalFiveHourDelta |->
                       acc.totalFiveHourDelta
                         + OrZero(session.tokenUsage.usageDelta.fiveHourDelta),
                   totalSevenDayDelta |->
                       acc.totalSevenDayDelta
                         + OrZero(session.tokenUsage.usageDelta.sevenDayDelta),
                   totalTokens |->
                       acc.totalTokens + OrZero(session.tokenUsage.totalTokens),
                   sessionsWithUsage |-> acc.sessionsWithUsage + 1]
             ELSE acc

\* the for loop with the counter moved out of the usageDelta test
RECURSIVE Totals_CountTokenUsage(_)
Totals_CountTokenUsage(seq) ==
    IF seq = <<>>
    THEN [totalFiveHourDelta |-> 0, totalSevenDayDelta |-> 0, totalTokens |-> 0,
          sessionsWithUsage |-> 0]
    ELSE LET acc == Totals_CountTokenUsage(SubSeq(seq, 1, Len(seq) - 1))
             session == seq[Len(seq)]
         IN  IF Truthy(session.tokenUsage)
             THEN IF Truthy(session.tokenUsage.usageDelta)
                  THEN [totalFiveHourDelta |->
                            acc.totalFiveHourDelta
                              + OrZero(session.tokenUsage.usageDelta.fiveHourDelta),
                        totalSevenDayDelta |->
                            acc.totalSevenDayDelta
                              + OrZero(session.tokenUsage.usageDelta.sevenDayDelta),
                        totalTokens |->
                            acc.totalTokens + OrZero(session.tokenUsage.totalTokens),
                        sessionsWithUsage |-> acc.sessionsWithUsage + 1]
                  ELSE [acc EXCEPT !.totalTokens =
                            acc.totalTokens + OrZero(session.tokenUsage.totalTokens),
                                   !.sessionsWithUsage = acc.sessionsWithUsage + 1]
             ELSE acc

\* the totals after the for loop has run over seq
RECURSIVE Totals(_)
Totals(seq) ==
    IF seq = <<>>
    THEN [totalFiveHourDelta |-> 0, totalSevenDayDelta |-> 0, totalTokens |-> 0,
          sessionsWithUsage |-> 0]
    ELSE LET acc == Totals(SubSeq(seq, 1, Len(seq) - 1))
             session == seq[Len(seq)]
         IN  IF Truthy(session.tokenUsage)
             THEN IF Truthy(session.tokenUsage.usageDelta)
                  THEN [totalFiveHourDelta |->
                            acc.totalFiveHourDelta
                              + OrZero(session.tokenUsage.usageDelta.fiveHourDelta),
                        totalSevenDayDelta |->
                            acc.totalSevenDayDelta
                              + OrZero(session.tokenUsage.usageDelta.sevenDayDelta),
                        totalTokens |->
                            acc.totalTokens + OrZero(session.tokenUsage.totalTokens),
                        sessionsWithUsage |-> acc.sessionsWithUsage + 1]
                  ELSE [acc EXCEPT !.totalTokens =
                            acc.totalTokens + OrZero(session.tokenUsage.totalTokens)]
             ELSE acc

\* the sessions taken without the hidden test
VisibleSessions_All(map) == map

\* Array.from(sessionMetaMap.values()).filter(s => !s.hidden)
VisibleSessions(map) == SelectSeq(map, LAMBDA s : ~s.hidden)

\* the memo with the for loop run over all sessions, hidden ones included
ComputeStats_LoopOverAll(map) ==
    LET sessions == VisibleSessions(map)
        totals == Totals(map)
        sortedSessions ==
            Slice(Sort(SelectSeq(sessions, LAMBDA s : Truthy(UsageDeltaOf(s)))),
                  TopSessionsCap)
    IN  [tag |-> "done",
         totalSessions |-> Len(sessions),
         sessionsWithUsage |-> totals.sessionsWithUsage,
         totalFiveHourDelta |-> totals.totalFiveHourDelta,
         totalSevenDayDelta |-> totals.totalSevenDayDelta,
         totalTokens |-> totals.totalTokens,
         topSessions |-> sortedSessions]

\* the value of the stats memo
ComputeStats(map) ==
    LET sessions == VisibleSessions(map)
        totals == Totals(sessions)
        sortedSessions ==
            Slice(Sort(SelectSeq(sessions, LAMBDA s : Truthy(UsageDeltaOf(s)))),
                  TopSessionsCap)
    IN  [tag |-> "done",
         totalSessions |-> Len(sessions),
         sessionsWithUsage |-> totals.sessionsWithUsage,
         totalFiveHourDelta |-> totals.totalFiveHourDelta,
         totalSevenDayDelta |-> totals.totalSevenDayDelta,
         totalTokens |-> totals.totalTokens,
         topSessions |-> sortedSessions]

(***************************************************************************)
(* Session collections of the exploration.                                 *)
(***************************************************************************)
\* what the token usage of a session can be: none, token counts only, or
\* token counts with a usage delta
TokenUsages ==
    {Undefined,
     TokenUsage(100, Undefined),
     TokenUsage(100, UsageDelta(0, 1)),
     TokenUsage(200, UsageDelta(5, 2))}

\* every collection of up to MaxShort sessions over these kinds
ShortCollections ==
    UNION {{[i \in 1..n |-> Session(i, h[i], u[i])] :
                h \in [1..n -> BOOLEAN], u \in [1..n -> TokenUsages]} :
           n \in 0..MaxShort}

\* session i of a patterned collection: its five-hour delta is i * mul modulo
\* mod (distinct deltas for a mod above the size, ties for a small one), every
\* hp-th session is hidden, and of every up sessions one has no token usage
\* and one has token counts only
PatternSession(i, mul, mod, hp, up) ==
    Session(i,
            hp > 0 /\ i % hp = 0,
            IF up > 0 /\ i % up = 1
            THEN Undefined
            ELSE IF up > 0 /\ i % up = 2
                 THEN TokenUsage(10 * i, Undefined)
                 ELSE TokenUsage(10 * i, UsageDelta((i * mul) % mod, i % 3)))

PatternCollections ==
    {[i \in 1..n |-> PatternSession(i, mul, mod, hp, up)] :
        n \in 0..MaxSessions, mul \in {1, 5, 11}, mod \in {1, 3, 17},
        hp \in {0, 2, 3}, up \in {0, 4, 5}}

SessionCollections == ShortCollections \cup PatternCollections

AggInit ==
    /\ PollerInit
    /\ rawPayload = Undefined
    /\ normalized = NotRun
    /\ sessionMetaMap \in SessionCollections
    /\ stats = NotRun
    /\ FmtIdle

\* the memo with the sort applied to the array of the collection itself
RenderStats_SortsInput ==
    /\ stats = NotRun
    /\ stats' = ComputeStats(sessionMetaMap)
    /\ sessionMetaMap' = Sort(sessionMetaMap)
    /\ UNCHANGED <<pollerVars, rawPayload, normalized, fmtVars>>

\* the panel renders and the memo is computed
RenderStats ==
    /\ stats = NotRun
    /\ stats' = ComputeStats(sessionMetaMap)
    /\ UNCHANGED <<pollerVars, rawPayload, normalized, sessionMetaMap, fmtVars>>

AggNext == RenderStats

AggSpec == AggInit /\ [][AggNext]_vars

\* the stats memo has been computed
Aggregated == stats # NotRun

\* session s is not hidden and carries a usage delta
Eligible(s) ==
    /\ ~s.hidden
    /\ s.tokenUsage # Undefined
    /\ s.tokenUsage.usageDelta # Undefined

\* the sessions of the collection that can be ranked
EligibleSessions == {i \in DOMAIN sessionMetaMap : Eligible(sessionMetaMap[i])}

\* the five-hour delta of a session that carries one
Delta(s) == s.tokenUsage.usageDelta.fiveHourDelta.v

(***************************************************************************)
(* C19.  topSessions holds only sessions of the collection that are not    *)
(* hidden and carry a usage delta, each at most once; it has at most 10    *)
(* entries, and as many as there are such sessions when they are fewer; it *)
(* is in descending order of fiveHourDelta; and no session left out has a  *)
(* larger fiveHourDelta than one that is in.  For 12 such sessions with    *)
(* distinct deltas that is exactly the top 10, in descending order.        *)
(***************************************************************************)
C19_TopSessionsRanked ==
    Aggregated =>
        LET top == stats.topSessions
        IN  /\ \A i \in DOMAIN top :
                  \E j \in EligibleSessions : sessionMetaMap[j] = top[i]
            /\ \A i, j \in DOMAIN top : i # j => top[i].id # top[j].id
            /\ Len(top) <= 10
            /\ Len(top) = Min(10, Cardinality(EligibleSessions))
            /\ \A i, j \in DOMAIN top : i < j => Delta(top[i]) >= Delta(top[j])
            /\ \A j \in EligibleSessions :
                  (\A i \in DOMAIN top : top[i] # sessionMetaMap[j])
                      => \A i \in DOMAIN top :
                             Delta(top[i]) >= Delta(sessionMetaMap[j])

\* 12 sessions, none hidden, all with a usage delta, with distinct deltas that
\* are not in descending order: 10 are ranked and two are cut
C19_Witness ==
    /\ Aggregated
    /\ Len(sessionMetaMap) = 12
    /\ Cardinality(EligibleSessions) = 12
    /\ \A i, j \in EligibleSessions :
          i # j => Delta(sessionMetaMap[i]) # Delta(sessionMetaMap[j])
    /\ \E i, j \in EligibleSessions :
          i < j /\ Delta(sessionMetaMap[i]) < Delta(sessionMetaMap[j])
    /\ Len(stats.topSessions) = 10
    /\ stats.topSessions[1] # sessionMetaMap[1]

(***************************************************************************)
(* C20.  Hidden sessions contribute nothing: the stats computed from a     *)
(* collection equal, field by field, the stats computed from the same      *)
(* collection with its hidden sessions removed.                            *)
(***************************************************************************)
C20_HiddenSessionsContributeNothing ==
    Aggregated =>
        stats = ComputeStats(SelectSeq(sessionMetaMap, LAMBDA s : ~s.hidden))

\* a collection with a hidden session that has token counts and a positive
\* usage delta, next to a session that is shown
C20_Witness ==
    /\ Aggregated
    /\ \E i, j \in DOMAIN sessionMetaMap :
          /\ sessionMetaMap[i].hidden
          /\ sessionMetaMap[i].tokenUsage = TokenUsage(200, UsageDelta(5, 2))
          /\ Eligible(sessionMetaMap[j])
    /\ stats.totalSessions < Len(sessionMetaMap)

(***************************************************************************)
(* Vocabulary of the totals.                                               *)
(***************************************************************************)
\* the sessions of the collection that are not hidden
ShownSessions == {i \in DOMAIN sessionMetaMap : ~sessionMetaMap[i].hidden}

\* those of them that have token usage
SessionsWithTokens ==
    {i \in ShownSessions : sessionMetaMap[i].tokenUsage # Undefined}

\* the sum of fn over the indices in S
RECURSIVE Sum(_, _)
Sum(fn, S) ==
    IF S = {}
    THEN 0
    ELSE LET x == CHOOSE y \in S : TRUE
         IN  fn[x] + Sum(fn, S \ {x})

\* what each session holds of one quantity, 0 where it holds none
TokensBySession ==
    [i \in DOMAIN sessionMetaMap |->
        IF sessionMetaMap[i].tokenUsage # Undefined
        THEN sessionMetaMap[i].tokenUsage.totalTokens.v
        ELSE 0]

FiveHourBySession ==
    [i \in DOMAIN sessionMetaMap |->
        IF i \in EligibleSessions
        THEN sessionMetaMap[i].tokenUsage.usageDelta.fiveHourDelta.v
        ELSE 0]

SevenDayBySession ==
    [i \in DOMAIN sessionMetaMap |->
        IF i \in EligibleSessions
        THEN sessionMetaMap[i].tokenUsage.usageDelta.sevenDayDelta.v
        ELSE 0]

(***************************************************************************)
(* C21.  Over the sessions that are not hidden: totalSessions counts them  *)
(* all, totalTokens is the sum of totalTokens over those with token usage, *)
(* sessionsWithUsage counts those with a usage delta, and the two delta    *)
(* totals are the sums of their deltas.  For the empty collection every    *)
(* number is 0 and topSessions is empty.                                   *)
(***************************************************************************)
C21_TotalsAreSums ==
    Aggregated =>
        /\ stats.totalSessions = Cardinality(ShownSessions)
        /\ stats.sessionsWithUsage = Cardinality(EligibleSessions)
        /\ stats.totalTokens = Sum(TokensBySession, SessionsWithTokens)
        /\ stats.totalFiveHourDelta = Sum(FiveHourBySession, EligibleSessions)
        /\ stats.totalSevenDayDelta = Sum(SevenDayBySession, EligibleSessions)
        /\ sessionMetaMap = <<>> =>
              stats = [tag |-> "done", totalSessions |-> 0, sessionsWithUsage |-> 0,
                       totalFiveHourDelta |-> 0, totalSevenDayDelta |-> 0,
                       totalTokens |-> 0, topSessions |-> <<>>]

\* three sessions: one shown with token counts only, one shown with a usage
\* delta, one hidden with both; the totals leave the hidden one out
C21_Witness ==
    /\ Aggregated
    /\ sessionMetaMap =
          <<Session(1, FALSE, TokenUsage(100, Undefined)),
            Session(2, FALSE, TokenUsage(200, UsageDelta(5, 2))),
            Session(3, TRUE, TokenUsage(200, UsageDelta(5, 2)))>>
    /\ stats.totalSessions = 2
    /\ stats.sessionsWithUsage = 1
    /\ stats.totalTokens = 300
    /\ stats.totalFiveHourDelta = 5
    /\ stats.totalSevenDayDelta = 2

\* where session s stands in the collection
PositionOf(s) == CHOOSE i \in DOMAIN sessionMetaMap : sessionMetaMap[i] = s

\* the rankable sessions that the cut left out
CutSessions ==
    {j \in EligibleSessions :
        \A i \in DOMAIN stats.topSessions : stats.topSessions[i] # sessionMetaMap[j]}

(***************************************************************************)
(* C22.  The ranking is stable on ties.  Two sessions of topSessions with  *)
(* equal fiveHourDelta stand in the order they have in the collection; and *)
(* a session the cut at 10 left out stands, in the collection, behind      *)
(* every ranked session it ties with.                                      *)
(***************************************************************************)
C22_RankingStableOnTies ==
    Aggregated =>
        LET top == stats.topSessions
        IN  /\ \A i, j \in DOMAIN top :
                  (i < j /\ Delta(top[i]) = Delta(top[j]))
                      => PositionOf(top[i]) < PositionOf(top[j])
            /\ \A j \in CutSessions : \A i \in DOMAIN top :
                  Delta(top[i]) = Delta(sessionMetaMap[j])
                      => PositionOf(top[i]) < j

\* 12 rankable sessions whose deltas tie in groups, the tenth and a session
\* that was cut among them; the larger deltas come later in the collection
C22_Witness ==
    /\ Aggregated
    /\ Cardinality(EligibleSessions) = 12
    /\ Len(stats.topSessions) = 10
    /\ \E j \in CutSessions :
          /\ Delta(sessionMetaMap[j]) = Delta(stats.topSessions[10])
          /\ PositionOf(stats.topSessions[10]) < j
    /\ \E i \in 1..9 :
          /\ Delta(stats.topSessions[i]) = Delta(stats.topSessions[i + 1])
          /\ PositionOf(stats.topSessions[i]) > PositionOf(stats.topSessions[10])

(***************************************************************************)
(* C23.  In the computed stats, sessionsWithUsage is at most totalSessions. *)
(***************************************************************************)
C23_UsageCountWithinTotal ==
    Aggregated => stats.sessionsWithUsage <= stats.totalSessions

\* every session shown has a usage delta, and a hidden session has one too
C23_Witness ==
    /\ Aggregated
    /\ stats.totalSessions > 0
    /\ stats.sessionsWithUsage = stats.totalSessions
    /\ \E i \in DOMAIN sessionMetaMap :
          /\ sessionMetaMap[i].hidden
          /\ Truthy(UsageDeltaOf(sessionMetaMap[i]))

(***************************************************************************)
(* C24.  The aggregator does not mutate its input: the step that computes  *)
(* the stats leaves the session collection as it was, the same records in  *)
(* the same order.  (filter returns a new array, and it is that array the  *)
(* sort reorders.)                                                         *)
(***************************************************************************)
C24_InputNotMutated ==
    [][stats' # stats => sessionMetaMap' = sessionMetaMap]_vars

\* the stats have been computed from a collection whose ranking is not in
\* collection order: the sort moved sessions, and the collection still has
\* the smaller delta first
C24_Witness ==
    /\ Aggregated
    /\ Len(stats.topSessions) >= 2
    /\ PositionOf(stats.topSessions[1]) > PositionOf(stats.topSessions[2])
    /\ Delta(sessionMetaMap[PositionOf(stats.topSessions[2])])
          < Delta(sessionMetaMap[PositionOf(stats.topSessions[1])])

(***************************************************************************)
(* C29.  The length of topSessions is min(10, sessionsWithUsage): the      *)
(* counter of the for loop and the filter of the ranking select the same   *)
(* sessions, those not hidden whose token usage carries a usage delta.     *)
(***************************************************************************)
C29_RankingLengthMatchesCounter ==
    Aggregated =>
        /\ Len(stats.topSessions) = Min(10, stats.sessionsWithUsage)
        /\ stats.sessionsWithUsage = Cardinality(EligibleSessions)
        /\ Cardinality(CutSessions) + Len(stats.topSessions)
              = Cardinality(EligibleSessions)

\* a collection with a shown session that has token counts but no usage
\* delta, next to ranked ones
C29_Witness ==
    /\ Aggregated
    /\ \E i \in SessionsWithTokens : i \notin EligibleSessions
    /\ stats.sessionsWithUsage >= 2
    /\ Len(stats.topSessions) = stats.sessionsWithUsage

(***************************************************************************)
(* Reset countdown: formatTimeUntilReset, which AnalyticsPanel and         *)
(* UsagePanel each define with the same body, applied when a usage bar is  *)
(* rendered.                                                               *)
(***************************************************************************)
MsPerMinute == 1000 * 60
MsPerHour == 1000 * 60 * 60
MsPerDay == 1000 * 60 * 60 * 24

\* an ISO timestamp string; new Date(...).getTime() of it is t
IsoString(t) == [k |-> "isostring", t |-> t]

\* new Date(x).getTime() is a number and not NaN
ParsesAsDate(x) == x.k = "isostring"

\* a % b of JavaScript: the sign of the result is that of a
JsRem(a, b) == IF a >= 0 THEN a % b ELSE -((-a) % b)

\* a formatted string: its fixed text, or the numbers and units of a duration
Rendered(text, parts) == [text |-> text, parts |-> parts]
Part(n, unit) == [n |-> n, unit |-> unit]

\* lines 34-45: the duration, from the largest unit that is not zero
FormatDuration(diffMs) ==
    LET diffMinutes == diffMs \div MsPerMinute
        diffHours == diffMs \div MsPerHour
        diffDays == diffMs \div MsPerDay
    IN  IF diffDays > 0
        THEN LET remainingHours == JsRem(diffHours, 24)
             IN  IF remainingHours > 0
                 THEN Rendered("duration",
                               <<Part(diffDays, "d"), Part(remainingHours, "h")>>)
                 ELSE Rendered("duration", <<Part(diffDays, "d")>>)
        ELSE IF diffHours > 0
             THEN LET remainingMinutes == JsRem(diffMinutes, 60)
                  IN  IF remainingMinutes > 0
                      THEN Rendered("duration",
                                    <<Part(diffHours, "h"), Part(remainingMinutes, "m")>>)
                      ELSE Rendered("duration", <<Part(diffHours, "h")>>)
             ELSE Rendered("duration", <<Part(diffMinutes, "m")>>)

\* the function with line 32, the test of diffMs <= 0, left out
formatTimeUntilReset_NoSoon(r, nowMs) ==
    IF ~Truthy(r)
    THEN Rendered("", <<>>)
    ELSE IF ~ParsesAsDate(r)
         THEN Rendered("NaNm", <<>>)
         ELSE FormatDuration(r.t - nowMs)

\* formatTimeUntilReset(resetsAt) called when the clock reads nowMs.  For a
\* string that is no date every comparison with NaN is false and the last
\* line renders NaN minutes.
formatTimeUntilReset(r, nowMs) ==
    IF ~Truthy(r)
    THEN Rendered("", <<>>)
    ELSE IF ~ParsesAsDate(r)
         THEN Rendered("NaNm", <<>>)
         ELSE LET diffMs == r.t - nowMs
              IN  IF diffMs <= 0
                  THEN Rendered("resets soon", <<>>)
                  ELSE FormatDuration(diffMs)

\* the clock readings of the exploration
Nows == {0, 1, MsPerMinute, MsPerHour + 1, MsPerDay}

\* reset minus clock: past, now, and the edges of every unit
Diffs ==
    {-MsPerDay, -MsPerMinute, -1, 0, 1, MsPerMinute - 1, MsPerMinute,
     MsPerHour - 1, MsPerHour, MsPerHour + MsPerMinute, MsPerDay - 1, MsPerDay,
     MsPerDay + MsPerHour, 2 * MsPerDay + 3 * MsPerHour + 4 * MsPerMinute}

\* what a usage window's resetsAt can hold: null, a timestamp, or, as the
\* normalizer copies the string it is given, the empty string or a string
\* that is no date
ResetValues ==
    {Null, Str(""), Str("soon")} \cup {IsoString(n + d) : n \in Nows, d \in Diffs}

FmtInit ==
    /\ PollerInit
    /\ rawPayload = Undefined
    /\ normalized = NotRun
    /\ sessionMetaMap = <<>>
    /\ stats = NotRun
    /\ resetsAt \in ResetValues
    /\ now \in Nows
    /\ timeUntilReset = NotRun

\* UsageBar renders: const timeUntilReset = formatTimeUntilReset(resetsAt)
RenderUsageBar ==
    /\ timeUntilReset = NotRun
    /\ timeUntilReset' = formatTimeUntilReset(resetsAt, now)
    /\ UNCHANGED <<pollerVars, rawPayload, normalized, sessionMetaMap, stats,
                   resetsAt, now>>

FmtNext == RenderUsageBar

FmtSpec == FmtInit /\ [][FmtNext]_vars

\* the bar has been rendered
Formatted == timeUntilReset # NotRun

(***************************************************************************)
(* C25.  A reset instant at or before the current time is rendered as      *)
(* "resets soon"; no rendered duration has a negative number in it; a      *)
(* reset instant ahead is rendered as a duration; and an absent resetsAt   *)
(* is rendered as the empty string.                                        *)
(***************************************************************************)
C25_PastResetIsImminent ==
    Formatted =>
        /\ IsNullish(resetsAt) => timeUntilReset = Rendered("", <<>>)
        /\ (ParsesAsDate(resetsAt) /\ resetsAt.t <= now)
              => timeUntilReset = Rendered("resets soon", <<>>)
        /\ (ParsesAsDate(resetsAt) /\ resetsAt.t > now)
              => timeUntilReset.text = "duration" /\ timeUntilReset.parts # <<>>
        /\ \A i \in DOMAIN timeUntilReset.parts : timeUntilReset.parts[i].n >= 0

\* a reset instant a day or more in the past has been rendered
C25_Witness ==
    /\ Formatted
    /\ ParsesAsDate(resetsAt)
    /\ now - resetsAt.t >= MsPerDay
    /\ timeUntilReset = Rendered("resets soon", <<>>)

(***************************************************************************)
(* C26.  In every state of the poller the availability flag is true        *)
(* exactly when a snapshot is stored.                                      *)
(***************************************************************************)
C26_AvailableIffSnapshot == isAvailable <=> usage # Null

\* a snapshot was stored and a later cycle, answered 500, has cleared it and
\* the flag with it, while another call is in flight
C26_Witness ==
    /\ HasSettled
    /\ lastDone.id > 1
    /\ Done(1)
    /\ HttpStatus(lastDone.outcome, {500})
    /\ usage = Null
    /\ ~isAvailable
    /\ inflight # {}

\* the outcomes the fetcher reports as a failure: 401/403, another status
\* that is not a success, a network error, a timeout, malformed JSON
FailureKind(o) ==
    \/ o.ipc = "ok" /\ o.resp.kind = "http" /\ ~ResponseOk(o.resp)
    \/ TransportFailure(o)

(***************************************************************************)
(* C27.  The failure kinds are reported alike.  For each of them the       *)
(* fetcher returns null, and a fetch cycle that ends with one leaves       *)
(* snapshot null, availability false and loading false, whichever kind it  *)
(* was and whatever was stored before: what the hook sets is the same for  *)
(* any two failure kinds.                                                  *)
(***************************************************************************)
C27_FailureKindsIndistinguishable ==
    [][(Settles /\ FailureKind(lastDone'.outcome)) =>
          /\ usage' = Null /\ ~isAvailable' /\ ~isLoading'
          /\ \A o \in Outcomes :
                FailureKind(o) =>
                    /\ fetchClaudeUsage(o.resp).value = Null
                    /\ fetchUsageSettled(getClaudeUsage(o))
                          = fetchUsageSettled(getClaudeUsage(lastDone'.outcome))]_vars

\* a cycle answered 401 has settled after a snapshot had been stored
C27_Witness ==
    /\ HasSettled
    /\ lastDone.id > 1
    /\ Done(1)
    /\ HttpStatus(lastDone.outcome, {401})
    /\ usage = Null
    /\ ~isAvailable
    /\ ~isLoading

====
